---- MODULE Spec2Model ----
(***************************************************************************)
(* Model of one WebSocket connection of the Zato WSX channel               *)
(* (zato/server/connection/web_socket/__init__.py) together with the       *)
(* tasks that act on it: the reader (ws4py run loop calling                *)
(* received_message / ponged / closed), the session watchdog               *)
(* (_ensure_session_created), the background pingers                       *)
(* (send_background_pings), a caller of invoke_client, the pub/sub         *)
(* delivery task (deliver_pubsub_msg) and a caller of disconnect_client.   *)
(*                                                                         *)
(* Tasks are gevent greenlets: a step of a task runs from one suspension   *)
(* point to the next.  Suspension points are sleeps, the polling waits of  *)
(* _wait_for_event, the blocking read of the reader and the socket write.  *)
(* Time is counted in seconds.  Every timestamp the program keeps          *)
(* (token.expires_at, the `until` of a wait, the end of a sleep) is held   *)
(* as its distance from datetime.utcnow(); a tick of the clock shortens    *)
(* all of them by one.                                                     *)
(***************************************************************************)
EXTENDS Integers, Sequences, FiniteSets, TLC

(***************************************************************************)
(* Configuration of the channel (WSXConnectorConfig) and model bounds.     *)
(***************************************************************************)
TokenTTL == 2                \* config.token_ttl, seconds
PingInterval == 1            \* config.ping_interval, seconds
PingsMissedThreshold == 1    \* config.pings_missed_threshold
NewTokenWaitTime == 2        \* config.new_token_wait_time, seconds
InvokeTimeout == 1           \* timeout handed to invoke_client by its caller
DefaultTimeout == 5          \* invoke_client(..., timeout=5, ...)
MaxTokens == 2               \* tokens (sessions) created on the connection
MaxPings == 2                \* pings sent over the connection
MaxMsgs == 3                 \* pub/sub messages handed over for the sub_key
MaxDisconnects == 2          \* outside calls of disconnect_client
MaxInvokes == 1              \* outside calls of invoke_client
InteractUpdateInterval == 2  \* _interact_update_interval, minutes

code_invalid_utf8 == 4001
code_pings_missed == 4002
runtime_background_ping == 3702   \* close_code.runtime_background_ping
code_unhandled_error == 3703      \* close_code.unhandled_error
BAD_REQUEST == 400
FORBIDDEN == 403
NOT_FOUND == 404
UNPROCESSABLE_ENTITY == 422
INTERNAL_SERVER_ERROR == 500
close_code_default == 1000   \* close(self, code=1000, ...)

VARIABLES
    ws,         \* the fields of the WebSocket object
    clients,    \* WebSocketContainer.clients (the set of its keys)
    tasks,      \* per task: position and local variables
    host,       \* what the host (ODB services, hooks) was asked to do
    wire,       \* the pub/sub messages put on the socket, frame by frame
    hist,       \* what the last step did (observation only)
    env         \* what the environment has done so far

vars == <<ws, clients, tasks, host, wire, hist, env>>

(***************************************************************************)
(* Tasks.                                                                  *)
(***************************************************************************)
Reader == <<"reader", 0>>
Watchdog == <<"watchdog", 0>>
Invoker == <<"invoker", 0>>
Deliverer == <<"deliverer", 0>>
Closer == <<"closer", 0>>
Pinger(i) == <<"pinger", i>>
Pingers == {Pinger(i) : i \in 1..MaxTokens}
Tasks == {Reader, Watchdog, Invoker, Deliverer, Closer} \cup Pingers
NoTask == <<"none", 0>>
Server == <<"server", 0>>    \* the WSGI server calling the container

\* Request ids: those of pings are fresh (new_cid()), the caller of
\* invoke_client supplies its own cid.
PingIds == 1..MaxPings
CallerId == MaxPings + 1
Ids == PingIds \cup {CallerId}
PubSubReplyId == 0           \* an in_reply_to starting with MSG_PREFIX.MSG_ID
RequestId == MaxPings + 2    \* meta.id of a request of the client
BatchCid == MaxPings + 4     \* the new_cid() of a batch of pub/sub messages
ResponseKeys == Ids \cup {BatchCid}   \* keys the reader may store a response under

ThisClient == 1              \* pub_client_id of the connection
OtherClient == 2             \* pub_client_id of a connection accepted later

(***************************************************************************)
(* Frames written to the socket.                                           *)
(***************************************************************************)
\* ctx is the `ctx` dict of a request of the server, empty unless set
NoCtx == <<>>
Frame(kind, ref, code, data) ==
    [kind |-> kind, ref |-> ref, code |-> code, data |-> data, ctx |-> NoCtx]
NoFrame == Frame("none", 0, 0, <<>>)

(***************************************************************************)
(* TokenInfo.  expires_in is expires_at - utcnow().                        *)
(***************************************************************************)
NoToken == [value |-> 0, ttl |-> 0, expires_in |-> 0]

\* self.ext_client_id = None
NoExtId == 0

\* An extend that moves expires_at back
extend_Shrinks(tok, extend_by) ==
    [tok EXCEPT !.expires_in = @ - (IF extend_by # 0 THEN extend_by ELSE tok.ttl)]

\* TokenInfo.extend: `extend_by or self.ttl`, 0 standing for None as well
extend(tok, extend_by) ==
    [tok EXCEPT !.expires_in = @ + (IF extend_by # 0 THEN extend_by ELSE tok.ttl)]

\* TokenInfo.__init__: expires_at = creation_time, then extend()
TokenInfo(value, ttl) ==
    extend([value |-> value, ttl |-> ttl, expires_in |-> 0], 0)

\* A setter that extends the token it has and keeps its value
token_setter_KeepsValue(w, value) ==
    IF w.token = NoToken
    THEN [w EXCEPT !.token = TokenInfo(value, TokenTTL)]
    ELSE [w EXCEPT !.token = extend(w.token, 0)]

\* WebSocket.token (setter)
token_setter(w, value) ==
    IF w.token = NoToken
    THEN [w EXCEPT !.token = TokenInfo(value, TokenTTL)]
    ELSE [w EXCEPT !.token = extend([w.token EXCEPT !.value = value], 0)]

\* A token that expired this long ago stays expired whatever pongs follow
TokenFloor == 0 - (MaxPings * PingInterval + 1)

(***************************************************************************)
(* Connection status.                                                      *)
(***************************************************************************)
\* ws4py's WebSocket.terminated
terminated(w) == w.client_terminated /\ w.server_terminated

is_client_disconnected(w) == terminated(w) \/ ~w.sock

\* A status update that leaves client_terminated alone
update_terminated_status_ServerOnly(w) == [w EXCEPT !.server_terminated = TRUE]

update_terminated_status(w) ==
    [w EXCEPT !.server_terminated = TRUE, !.client_terminated = TRUE]

\* ws4py's _write raises RuntimeError(_cannot_send) in the other case
can_write(w) == w.stream /\ ~is_client_disconnected(w)

(***************************************************************************)
(* A task holds its position (pc), the frame it is writing, what follows   *)
(* the write (cont), the seconds left of its sleep or wait (left), the     *)
(* request id it waits for and its local variable `response`.              *)
(***************************************************************************)
Task(pc, frame, cont, left, id, response) ==
    [pc |-> pc, frame |-> frame, cont |-> cont, left |-> left, id |-> id, response |-> response]

Idle(pc) == Task(pc, NoFrame, "none", 0, 0, "unbound")

(***************************************************************************)
(* What the last step is seen to do: the task that took it (by), the frame *)
(* it put on the wire; for a request the reader took in, whether a session *)
(* was open (authed), whether the request carried the current token        *)
(* (token_ok) before its expiry (in_time), where it was dispatched to and  *)
(* why it was rejected; for a wait that returned, the request id (waited), *)
(* the time that was left and the result; for an HTTP request the status   *)
(* of the response the container started; the services of the host that   *)
(* set_last_interaction_data invoked.                                      *)
(***************************************************************************)
NoHist ==
    [by |-> NoTask, frame |-> NoFrame, authed |-> FALSE, token_ok |-> FALSE,
     in_time |-> FALSE, dispatch |-> "none", rejected |-> "none",
     waited |-> 0, left |-> 0, result |-> "none", status |-> 0, services |-> <<>>,
     failed |-> "none"]

Wrote(t, frame) == [NoHist EXCEPT !.by = t, !.frame = frame]

Returned(t, id, left, result) ==
    [NoHist EXCEPT !.by = t, !.waited = id, !.left = left, !.result = result]

(***************************************************************************)
(* The interaction recorder: set_last_interaction_data.  interact_last_set *)
(* tells whether the field is set; interact_last_updated is kept as the    *)
(* minutes that passed since that time (NoTime: None), up to one more than *)
(* the interval.                                                           *)
(***************************************************************************)
NoTime == 0 - 1

\* `self.interact_last_updated + timedelta(minutes=_interval) < now`, unless
\* this is the first interaction
needs_services(w) ==
    IF ~w.interact_last_set THEN TRUE
    ELSE InteractUpdateInterval < w.interact_last_updated

\* The services invoked, in this order
interaction_services(w) ==
    IF needs_services(w)
    THEN <<"zato.pubsub.subscription.update-interaction-metadata",
           "zato.channel.web-socket.client.set-last-seen">>
    ELSE <<>>

set_last_interaction_data(w) ==
    [w EXCEPT !.interact_last_set = TRUE,
              !.interact_last_updated = IF needs_services(w) THEN 0 ELSE @]

(***************************************************************************)
(* State after WebSocket._init and opened(): the watchdog is spawned and   *)
(* starts its wait of config.new_token_wait_time.                          *)
(***************************************************************************)
InitWaiting(new_token_wait_time) ==
    /\ ws = [has_session_opened |-> FALSE,
             token |-> NoToken,
             pings_missed |-> 0,
             responses_received |-> [i \in ResponseKeys |-> "none"],
             _disconnect_requested |-> FALSE,
             server_terminated |-> FALSE,
             client_terminated |-> FALSE,
             stream |-> TRUE,
             sock |-> TRUE,
             update_lock |-> NoTask,
             interact_last_set |-> FALSE,
             interact_last_updated |-> NoTime,
             ext_client_id |-> NoExtId]
    /\ clients = {ThisClient}
    /\ tasks = [t \in Tasks |->
                  IF t = Reader THEN Idle("recv")
                  ELSE IF t = Watchdog THEN Task("wait", NoFrame, "none", new_token_wait_time, 0, "unbound")
                  ELSE IF t \in Pingers THEN Idle("none")
                  ELSE Idle("idle")]
    /\ host = [created |-> 0, unregistered |-> 0, by_disconnect |-> 0, audit_deleted |-> 0]
    /\ wire = <<>>
    /\ hist = NoHist
    /\ env = [pings |-> 0, handed |-> 0, disconnects |-> 0, invokes |-> 0]

Init == InitWaiting(NewTokenWaitTime)

\* The same on a channel with new_token_wait_time = 0
InitNoWait == InitWaiting(0)

(***************************************************************************)
(* The clock: one second passes.                                           *)
(***************************************************************************)
Max(a, b) == IF a > b THEN a ELSE b

Tick ==
    /\ ws' = IF ws.token = NoToken THEN ws
             ELSE [ws EXCEPT !.token.expires_in = Max(@ - 1, TokenFloor)]
    /\ tasks' = [t \in Tasks |-> [tasks[t] EXCEPT !.left = Max(@ - 1, 0)]]
    /\ hist' = NoHist
    /\ UNCHANGED <<clients, host, wire, env>>

(***************************************************************************)
(* Closing.                                                                *)
(***************************************************************************)
\* The channel keeps an audit log (is_audit_log_sent_active or
\* is_audit_log_received_active)
is_audit_log_active == TRUE

\* unregister_auth_client: cleanup_wsx_client, which is handed the
\* on_disconnected hook
unregister_auth_client(h) == [h EXCEPT !.unregistered = @ + 1]

\* _close_connection: unregister_auth_client, then (after clients.pop)
\* audit_log.delete_container
close_connection(h) ==
    IF is_audit_log_active
    THEN [unregister_auth_client(h) EXCEPT !.audit_deleted = @ + 1]
    ELSE unregister_auth_client(h)

\* WebSocket.close: the close frame it writes, if any; an exception of
\* _write is logged
close_frame(w, code) ==
    IF ~w.server_terminated /\ can_write([w EXCEPT !.server_terminated = TRUE])
    THEN Frame("Close", 0, code, <<>>)
    ELSE NoFrame

\* WebSocket.close: its change of the connection
close(w) == [w EXCEPT !.server_terminated = TRUE]

\* WebSocket.disconnect_client: what _close_connection asks of the host
disconnect_client_host(w, h) ==
    [close_connection(h) EXCEPT !.by_disconnect = @ + 1]

\* A disconnect_client that does not record the request
disconnect_client_NoRequest(w) == close(w)

\* WebSocket.disconnect_client: its change of the connection
disconnect_client(w) == close([w EXCEPT !._disconnect_requested = TRUE])

\* A closed() that leaves everything to disconnect_client
closed_host_Never(w, h) == h

\* WebSocket.closed (also on_socket_terminated): what it asks of the host
closed_host(w, h) == IF ~w._disconnect_requested THEN close_connection(h) ELSE h

\* _close_connection: self.container.clients.pop(self.pub_client_id, None)
closed_clients(w, c) == IF ~w._disconnect_requested THEN c \ {ThisClient} ELSE c

\* ws4py's terminate(), which run() calls when its loop ends: closed(),
\* then both flags are set and the socket and the stream are dropped
terminate(w) ==
    [update_terminated_status(w) EXCEPT !.sock = FALSE, !.stream = FALSE]

(***************************************************************************)
(* Inbound text frames, as parse_json leaves them: the action, the token   *)
(* (0: none), what the auth backend says of the credentials, what the      *)
(* service does with the request (and the status of the Reportable it      *)
(* raises), in_reply_to and the data; msg.ext_client_id; and which of the   *)
(* calls made for the message raises an exception (fails: a hook service   *)
(* or the host's client.create).                                           *)
(***************************************************************************)
ClientMessage(action, token, creds_ok, svc, in_reply_to) ==
    [action |-> action, id |-> RequestId, token |-> token, creds_ok |-> creds_ok,
     svc |-> svc, status |-> 0, in_reply_to |-> in_reply_to, data |-> 1,
     ext_client_id |-> NoExtId, fails |-> "none"]

ClientMessages ==
    {ClientMessage("create-session", tok, ok, "ok", 0) :
        tok \in 0..MaxTokens, ok \in BOOLEAN}
    \cup {ClientMessage("invoke-service", tok, FALSE, svc, 0) :
        tok \in 0..MaxTokens, svc \in {"ok", "error"}}
    \cup {ClientMessage("client-response", tok, FALSE, "ok", irt) :
        tok \in 0..MaxTokens, irt \in {PubSubReplyId, CallerId}}

\* The same messages with a call that raises: on_vault_mount_point_needed
\* in create_session, client.create or on_connected in register_auth_client,
\* on_pubsub_response in _handle_client_response
FailingMessages ==
    {[ClientMessage("create-session", tok, ok, "ok", 0) EXCEPT !.fails = "on_vault_mount_point_needed"] :
        tok \in 0..MaxTokens, ok \in BOOLEAN}
    \cup {[ClientMessage("create-session", tok, TRUE, "ok", 0) EXCEPT !.fails = f] :
        tok \in 0..MaxTokens, f \in {"client.create", "on_connected"}}
    \cup {[ClientMessage("client-response", tok, FALSE, "ok", PubSubReplyId)
                EXCEPT !.fails = "on_pubsub_response"] : tok \in 0..MaxTokens}

is_auth(m) == m.action = "create-session"

\* What a handler of the reader leaves behind: the connection, the frame it
\* starts to write (if any), what follows the write ("loop", or the reason
\* of on_forbidden), whether a session was created, where the request was
\* dispatched to and why it was rejected
Handled(w, frame, cont, session, rejected) ==
    [ws |-> w, frame |-> frame, cont |-> cont, session |-> session,
     dispatch |-> "none", rejected |-> rejected, failed |-> "none"]

\* An exception handler that disconnects the client
logged_exception_Disconnects(w) ==
    [w EXCEPT !._disconnect_requested = TRUE, !.server_terminated = TRUE]

\* _received_message: `except Exception: logger.warning(format_exc())`, the
\* connection stays as the handler left it
logged_exception(w) == w

\* A handler that ends with an exception in the call `what`: nothing is
\* written and the reader goes back to its loop
Failed(w, what) ==
    [Handled(logged_exception(w), NoFrame, "loop", FALSE, "none") EXCEPT !.failed = what]

Dispatched(h, kind) == [h EXCEPT !.dispatch = kind]

Forbidden == Frame("Forbidden", 0, FORBIDDEN, <<>>)

\* An on_forbidden that closes with the default code instead
on_forbidden_frame_Closes(w) ==
    IF is_client_disconnected(w) \/ ~w.stream THEN NoFrame
    ELSE Frame("Close", 0, close_code_default, <<>>)

\* on_forbidden: the Forbidden message is written unless the client is known
\* to have disconnected; the AttributeError of a dropped stream is swallowed
on_forbidden_frame(w) ==
    IF is_client_disconnected(w) \/ ~w.stream THEN NoFrame ELSE Forbidden

\* on_forbidden: what it does before any write
on_forbidden(w) ==
    IF is_client_disconnected(w) THEN update_terminated_status(w) ELSE w

\* on_forbidden(action), called by the reader
Rejected(w, why) == Handled(on_forbidden(w), on_forbidden_frame(w), why, FALSE, why)

\* send() of a response by the reader: RuntimeError(_cannot_send) and the
\* AttributeError of a dropped stream are logged, nothing is written
response_frame(w, frame) == IF can_write(w) THEN frame ELSE NoFrame

\* create_session, when the auth backend accepts the credentials
create_session(w, value) ==
    [token_setter(w, value) EXCEPT !.has_session_opened = TRUE]

\* create_session: `self.ext_client_id = request.ext_client_id`
set_ext_client_id(w, m) == [w EXCEPT !.ext_client_id = m.ext_client_id]

\* handle_create_session: create_session (the Vault hook comes before the
\* auth backend), register_auth_client (client.create, the on_connected
\* hook, the pinger), send
handle_create_session(w, m) ==
    IF ~is_auth(m) THEN Rejected(w, "not-auth")
    ELSE IF m.fails = "on_vault_mount_point_needed" THEN Failed(w, m.fails)
    ELSE IF ~m.creds_ok THEN Rejected(w, "credentials")
    ELSE LET w1 == set_ext_client_id(create_session(w, w.token.value + 1), m)
         IN  IF m.fails \in {"client.create", "on_connected"} THEN Failed(w1, m.fails)
             ELSE Handled(w1, response_frame(w1, Frame("Authenticate", m.id, w1.token.value, <<>>)),
                          "loop", TRUE, "none")

\* invoke_service: what the configured service returns for the data
on_message_callback(data) == data + 1

\* An error mapping that knows one status only
error_status_Internal(m) == INTERNAL_SERVER_ERROR

\* _handle_invoke_service: the status of the ErrorResponse
error_status(m) ==
    IF m.svc = "reportable" THEN m.status
    ELSE IF m.svc = "parsing" THEN BAD_REQUEST
    ELSE INTERNAL_SERVER_ERROR

\* _handle_invoke_service
handle_invoke_service(w, m) ==
    Handled(w,
            response_frame(w, IF m.svc = "ok"
                              THEN Frame("OK", m.id, 0, <<on_message_callback(m.data)>>)
                              ELSE Frame("Error", m.id, error_status(m), <<>>)),
            "loop", FALSE, "none")

\* _handle_client_response
handle_client_response(w, m) ==
    IF m.in_reply_to = PubSubReplyId
    THEN IF m.fails = "on_pubsub_response" THEN Failed(w, m.fails)
         ELSE Handled(w, NoFrame, "loop", FALSE, "none")
    ELSE Handled([w EXCEPT !.responses_received[m.in_reply_to] = "msg"],
                 NoFrame, "loop", FALSE, "none")

\* The token check with the expiry test left out
token_accepted_NoExpiry(w, m) ==
    /\ m.token # 0
    /\ m.token = w.token.value

\* _received_message: the checks of an authenticated connection;
\* `_timestamp > self.token.expires_at` is 0 > expires_in
token_accepted(w, m) ==
    /\ m.token # 0
    /\ m.token = w.token.value
    /\ ~(0 > w.token.expires_in)

\* A reader that hands any request that is not a create-session to the
\* service, session or not
received_message_NoSessionCheck(w, m) ==
    IF is_auth(m) THEN handle_create_session(w, m)
    ELSE Dispatched(handle_invoke_service(w, m), "service")

\* _received_message, from the parsed request on
received_message(w, m) ==
    IF w.has_session_opened
    THEN IF ~token_accepted(w, m) THEN Rejected(w, "token")
         ELSE IF is_auth(m)
              THEN Dispatched(handle_create_session(w, m), "reauth")
         ELSE IF m.action = "client-response"
              THEN Dispatched(handle_client_response(w, m),
                              IF m.in_reply_to = PubSubReplyId THEN "hook" ELSE "correlator")
         ELSE Dispatched(handle_invoke_service(w, m), "service")
    ELSE handle_create_session(w, m)

(***************************************************************************)
(* The reader: ws4py's run loop.  It blocks in recv; what arrives is a     *)
(* text frame (received_message), a pong (ponged) or the end of the        *)
(* stream, after which terminate() calls closed().                         *)
(***************************************************************************)
SetTask(tk, t, rec) == [tk EXCEPT ![t] = rec]

\* The loop test of run(): `while not self.terminated`, else terminate()
ReaderResume(w, h, tk) ==
    IF terminated(w)
    THEN /\ ws' = terminate(w)
         /\ host' = closed_host(w, h)
         /\ clients' = closed_clients(w, clients)
         /\ tasks' = SetTask(tk, Reader, Idle("done"))
    ELSE /\ ws' = w
         /\ host' = h
         /\ clients' = clients
         /\ tasks' = SetTask(tk, Reader, Idle("recv"))

\* A loop that sleeps again without looking at the connection
pinger_loop_Unconditional(w, response) ==
    Task("sleep", NoFrame, "none", PingInterval, 0, response)

\* send_background_pings: `while self.stream and (not self.server_terminated)`,
\* then sleep(ping_interval)
pinger_loop(w, response) ==
    IF w.stream /\ ~w.server_terminated
    THEN Task("sleep", NoFrame, "none", PingInterval, 0, response)
    ELSE Task("done", NoFrame, "none", 0, 0, response)

\* register_auth_client: spawn(self.send_background_pings, self.ping_interval)
spawn_pinger(w, tk) == SetTask(tk, Pinger(w.token.value), pinger_loop(w, "unbound"))

\* received_message; create_session takes update_lock, and new_cid() has
\* MaxTokens token values to give
ReceiveParsed(w, m) ==
    /\ tasks[Reader].pc = "recv"
    /\ LET r == received_message(w, m)
           new_session == r.ws.token.value # w.token.value
           h == IF r.session \/ r.failed = "on_connected"
                THEN [host EXCEPT !.created = @ + 1] ELSE host
           tk == IF r.session THEN spawn_pinger(r.ws, tasks) ELSE tasks
       IN  /\ (r.session \/ new_session) => (w.token.value < MaxTokens /\ w.update_lock = NoTask)
           /\ hist' = [NoHist EXCEPT
                         !.by = Reader,
                         !.authed = w.has_session_opened,
                         !.token_ok = m.token # 0 /\ m.token = w.token.value,
                         !.in_time = w.token.expires_in >= 0,
                         !.dispatch = r.dispatch,
                         !.rejected = r.rejected,
                         !.failed = r.failed]
           /\ IF r.frame # NoFrame
              THEN /\ ws' = r.ws
                   /\ host' = h
                   /\ tasks' = SetTask(tk, Reader, Task("write", r.frame, r.cont, 0, m.id, "unbound"))
                   /\ UNCHANGED clients
              ELSE ReaderResume(r.ws, h, tk)
    /\ UNCHANGED <<wire, env>>

\* received_message of a request whose parsing left the connection alone
ReceiveMessage(m) ==
    /\ tasks[Reader].pc = "recv"
    /\ ReceiveParsed(ws, m)

\* The reader's frame is on the wire; after a Forbidden message on_forbidden
\* goes on to update_terminated_status, after the close frame of
\* disconnect_client the handler returns
ReaderWritten ==
    /\ tasks[Reader].pc = "write"
    /\ hist' = [Wrote(Reader, tasks[Reader].frame) EXCEPT
                  !.rejected = IF tasks[Reader].cont = "loop" THEN "none" ELSE tasks[Reader].cont]
    /\ ReaderResume(IF tasks[Reader].cont \in {"loop", "invalid-utf8"} THEN ws
                    ELSE update_terminated_status(ws),
                    host, tasks)
    /\ UNCHANGED <<wire, env>>

\* A ping is on the wire once its write is over
ping_sent(id) ==
    /\ id \in 1..env.pings
    /\ \A p \in Pingers : ~(tasks[p].pc = "write" /\ tasks[p].id = id)

\* ponged: the pong is a copy of a ping that was sent; the response is
\* stored, then set_last_interaction_data('wsx.ponged')
Ponged(id) ==
    /\ tasks[Reader].pc = "recv"
    /\ ping_sent(id)
    /\ ws.responses_received[id] # "pong"
    /\ ws' = set_last_interaction_data([ws EXCEPT !.responses_received[id] = "pong"])
    /\ hist' = [NoHist EXCEPT !.services = interaction_services(ws)]
    /\ UNCHANGED <<clients, tasks, host, wire, env>>

\* The peer closes the stream: recv returns nothing and the loop ends
PeerClosed ==
    /\ tasks[Reader].pc = "recv"
    /\ ws' = terminate(ws)
    /\ host' = closed_host(ws, host)
    /\ clients' = closed_clients(ws, clients)
    /\ tasks' = SetTask(tasks, Reader, Idle("done"))
    /\ hist' = NoHist
    /\ UNCHANGED <<wire, env>>

(***************************************************************************)
(* _wait_for_event, with left = until - now.                               *)
(***************************************************************************)
\* A wait that polls once more after its time is up
wait_observes_Late(left, seen) == seen

\* `while now < until`: the condition is polled and seen
wait_observes(left, seen) == left > 0 /\ seen

\* A wait that outlives its timeout
wait_expired_Never(left) == FALSE

\* the loop ends once now >= until
wait_expired(left) == ~(left > 0)

(***************************************************************************)
(* The session watchdog: _ensure_session_created.                          *)
(***************************************************************************)
WatchdogObserve ==
    /\ tasks[Watchdog].pc = "wait"
    /\ wait_observes(tasks[Watchdog].left, ws.has_session_opened)
    /\ tasks' = SetTask(tasks, Watchdog, Idle("done"))
    /\ hist' = NoHist
    /\ UNCHANGED <<ws, clients, host, wire, env>>

WatchdogExpire ==
    /\ tasks[Watchdog].pc = "wait"
    /\ wait_expired(tasks[Watchdog].left)
    /\ ws' = on_forbidden(ws)
    /\ tasks' = SetTask(tasks, Watchdog,
                        IF on_forbidden_frame(ws) = NoFrame THEN Idle("done")
                        ELSE Task("write", Forbidden, "forbidden", 0, 0, "unbound"))
    /\ hist' = NoHist
    /\ UNCHANGED <<clients, host, wire, env>>

\* The write of a task other than the reader fails when the socket was
\* dropped under it
WatchdogWritten ==
    /\ tasks[Watchdog].pc = "write"
    /\ IF ws.sock
       THEN /\ hist' = Wrote(Watchdog, Forbidden)
            /\ ws' = update_terminated_status(ws)
       ELSE /\ hist' = NoHist
            /\ UNCHANGED ws
    /\ tasks' = SetTask(tasks, Watchdog, Idle("done"))
    /\ UNCHANGED <<clients, host, wire, env>>

(***************************************************************************)
(* invoke_client: how its send (or ping) starts.                           *)
(***************************************************************************)
\* "write": the frame goes to the socket; "AttributeError": the stream is
\* gone; "cannot-send": _write raises RuntimeError(_cannot_send)
invoke_client_send(w) ==
    IF ~w.stream THEN "AttributeError"
    ELSE IF can_write(w) THEN "write"
    ELSE "cannot-send"

(***************************************************************************)
(* The background pinger: send_background_pings.                           *)
(***************************************************************************)
\* An update that forgets the missed ping
ping_update_Resets(w, response) == [w EXCEPT !.pings_missed = 0]

\* The body of `with self.update_lock`: `if response:` ... `else:` ...
ping_update(w, response) ==
    IF response = "true"
    THEN [w EXCEPT !.pings_missed = 0, !.token = extend(@, PingInterval)]
    ELSE [w EXCEPT !.pings_missed = @ + 1]

\* A pinger that never gives up
pings_missed_reached_Never(w) == FALSE

\* `if self.pings_missed < self.pings_missed_threshold: ... else: on_pings_missed()`
pings_missed_reached(w) == ~(w.pings_missed < PingsMissedThreshold)

\* One round's end, from `with self.update_lock` to the top of the loop or
\* to on_pings_missed: disconnect_client, whose close frame is written
\* before update_terminated_status
PingerRound(p, w, h, c, response) ==
    LET w1 == ping_update(w, response)
    IN  IF response # "true" /\ pings_missed_reached(w1)
        THEN LET frame == close_frame(w1, code_pings_missed)
                 w2 == disconnect_client(w1)
             IN  /\ host' = disconnect_client_host(w1, h)
                 /\ clients' = c \ {ThisClient}
                 /\ IF frame # NoFrame
                    THEN /\ ws' = [w2 EXCEPT !.update_lock = p]
                         /\ tasks' = SetTask(tasks, p, Task("write", frame, "closed", 0, 0, response))
                    ELSE /\ ws' = update_terminated_status(w2)
                         /\ tasks' = SetTask(tasks, p, Task("done", NoFrame, "none", 0, 0, response))
        ELSE /\ ws' = w1
             /\ host' = h
             /\ clients' = c
             /\ tasks' = SetTask(tasks, p, pinger_loop(w1, response))

\* The sleep is over: `if self.stream and (not self.server_terminated)`,
\* then invoke_client(new_cid(), None, use_send=False)
PingerWake(p) ==
    /\ tasks[p].pc = "sleep"
    /\ tasks[p].left = 0
    /\ IF ws.stream /\ ~ws.server_terminated
       THEN /\ env.pings < MaxPings
            /\ env' = [env EXCEPT !.pings = @ + 1]
            /\ tasks' = SetTask(tasks, p,
                   Task("write", Frame("Ping", env.pings + 1, 0, <<>>), "wait", 0,
                        env.pings + 1, tasks[p].response))
       ELSE /\ tasks' = SetTask(tasks, p, Idle("done"))
            /\ UNCHANGED env
    /\ hist' = NoHist
    /\ UNCHANGED <<ws, clients, host, wire>>

\* The ping is on the wire and the wait of invoke_client starts with the
\* default timeout; or the socket was dropped under the write, the
\* ConnectionError leads to on_socket_terminated and the round ends with
\* the `response` of the round before (an unbound one ends the pinger)
PingerPingWritten(p) ==
    /\ tasks[p].pc = "write"
    /\ tasks[p].cont = "wait"
    /\ IF ws.sock
       THEN /\ hist' = Wrote(p, tasks[p].frame)
            /\ tasks' = SetTask(tasks, p,
                   Task("wait", NoFrame, "none", DefaultTimeout, tasks[p].id, tasks[p].response))
            /\ UNCHANGED <<ws, clients, host>>
       ELSE /\ ws.update_lock = NoTask
            /\ hist' = NoHist
            /\ IF tasks[p].response = "unbound"
               THEN /\ host' = closed_host(ws, host)
                    /\ clients' = closed_clients(ws, clients)
                    /\ tasks' = SetTask(tasks, p, Idle("done"))
                    /\ UNCHANGED ws
               ELSE PingerRound(p, ws, closed_host(ws, host), closed_clients(ws, clients),
                                tasks[p].response)
    /\ UNCHANGED <<wire, env>>

\* _wait_for_client_response sees the pong
PingerObserve(p) ==
    /\ tasks[p].pc = "wait"
    /\ wait_observes(tasks[p].left, ws.responses_received[tasks[p].id] # "none")
    /\ ws.update_lock = NoTask
    /\ hist' = Returned(p, tasks[p].id, tasks[p].left, "true")
    /\ PingerRound(p, ws, host, clients, "true")
    /\ UNCHANGED <<wire, env>>

\* _wait_for_client_response returns None
PingerTimeout(p) ==
    /\ tasks[p].pc = "wait"
    /\ wait_expired(tasks[p].left)
    /\ ws.update_lock = NoTask
    /\ hist' = Returned(p, tasks[p].id, tasks[p].left, "none")
    /\ PingerRound(p, ws, host, clients, "none")
    /\ UNCHANGED <<wire, env>>

\* on_pings_missed after disconnect_client: update_terminated_status
PingerCloseWritten(p) ==
    /\ tasks[p].pc = "write"
    /\ tasks[p].cont = "closed"
    /\ hist' = IF ws.sock THEN Wrote(p, tasks[p].frame) ELSE NoHist
    /\ ws' = [update_terminated_status(ws) EXCEPT !.update_lock = NoTask]
    /\ tasks' = SetTask(tasks, p, Idle("done"))
    /\ UNCHANGED <<clients, host, wire, env>>

(***************************************************************************)
(* WebSocketContainer: the operations addressed to a pub_client_id, each   *)
(* one `self.clients[pub_client_id].<operation>(...)`.                     *)
(***************************************************************************)
\* A lookup that hands back a connection whatever the key
container_lookup_Default(c, pub_client_id) == "found"

\* self.clients[pub_client_id]: a dict lookup, KeyError for a missing key
container_lookup(c, pub_client_id) ==
    IF pub_client_id \in c THEN "found" ELSE "KeyError"

\* The operations that leave the connection's own state alone: the message
\* goes to pubsub_tool, the subscription to a service, the connection
\* itself to the caller
ContainerOps == {"notify_pubsub_message", "subscribe_to_topic", "get_client_by_pub_id"}

ContainerCall(op, pub_client_id) ==
    /\ hist' = [NoHist EXCEPT !.by = Server,
                              !.dispatch = IF container_lookup(clients, pub_client_id) = "found"
                                           THEN op ELSE "none",
                              !.result = container_lookup(clients, pub_client_id)]
    /\ UNCHANGED <<ws, clients, tasks, host, wire, env>>

(***************************************************************************)
(* A caller of invoke_client that waits for the response, on the           *)
(* connection itself or through WebSocketContainer.invoke_client.          *)
(***************************************************************************)
\* What starting a request does, for a task t that is not the reader:
\* the write starts, or the AttributeError goes to the caller, or the
\* RuntimeError makes invoke_client disconnect the client and raise
StartRequest(t, frame, cont) ==
    LET how == invoke_client_send(ws)
    IN  IF how = "write"
        THEN /\ tasks' = SetTask(tasks, t, Task("write", frame, cont, 0, frame.ref, "unbound"))
             /\ UNCHANGED <<ws, host, clients>>
        ELSE IF how = "cannot-send"
        THEN /\ ws' = disconnect_client(ws)
             /\ host' = disconnect_client_host(ws, host)
             /\ clients' = clients \ {ThisClient}
             /\ tasks' = SetTask(tasks, t, Task("idle", NoFrame, "none", 0, 0, "exception"))
        ELSE /\ tasks' = SetTask(tasks, t, Task("idle", NoFrame, "none", 0, 0, "exception"))
             /\ UNCHANGED <<ws, host, clients>>

\* self.clients[pub_client_id] of the container raises KeyError for a
\* client that is not in the map
InvokeClient(via) ==
    /\ tasks[Invoker].pc = "idle"
    /\ env.invokes < MaxInvokes
    /\ env' = [env EXCEPT !.invokes = @ + 1]
    /\ IF via = "container" /\ container_lookup(clients, ThisClient) = "KeyError"
       THEN /\ tasks' = SetTask(tasks, Invoker, Task("idle", NoFrame, "none", 0, 0, "exception"))
            /\ UNCHANGED <<ws, host, clients>>
       ELSE StartRequest(Invoker, Frame("InvokeClient", CallerId, 0, <<>>), "wait")
    /\ hist' = NoHist
    /\ UNCHANGED wire

\* The request is on the wire, _wait_for_client_response starts
InvokerWritten ==
    /\ tasks[Invoker].pc = "write"
    /\ IF ws.sock
       THEN /\ hist' = Wrote(Invoker, tasks[Invoker].frame)
            /\ tasks' = SetTask(tasks, Invoker,
                   Task("wait", NoFrame, "none", InvokeTimeout, tasks[Invoker].id, "unbound"))
       ELSE /\ hist' = NoHist
            /\ tasks' = SetTask(tasks, Invoker, Task("idle", NoFrame, "none", 0, 0, "exception"))
    /\ UNCHANGED <<ws, clients, host, wire, env>>

\* The wait sees the response and invoke_client returns it
InvokerObserve ==
    /\ tasks[Invoker].pc = "wait"
    /\ wait_observes(tasks[Invoker].left, ws.responses_received[tasks[Invoker].id] # "none")
    /\ hist' = Returned(Invoker, tasks[Invoker].id, tasks[Invoker].left,
                        ws.responses_received[tasks[Invoker].id])
    /\ tasks' = SetTask(tasks, Invoker,
           Task("idle", NoFrame, "none", 0, tasks[Invoker].id,
                ws.responses_received[tasks[Invoker].id]))
    /\ UNCHANGED <<ws, clients, host, wire, env>>

\* The wait is over and invoke_client returns None
InvokerTimeout ==
    /\ tasks[Invoker].pc = "wait"
    /\ wait_expired(tasks[Invoker].left)
    /\ hist' = Returned(Invoker, tasks[Invoker].id, tasks[Invoker].left, "none")
    /\ tasks' = SetTask(tasks, Invoker, Task("idle", NoFrame, "none", 0, tasks[Invoker].id, "none"))
    /\ UNCHANGED <<ws, clients, host, wire, env>>

(***************************************************************************)
(* The delivery task of the sub_key: deliver_pubsub_msg, one call after    *)
(* the other, each with the next message or the next batch.                *)
(***************************************************************************)
\* A loop that puts each element in front of the ones before it
RECURSIVE pubsub_data_Prepends(_, _)
pubsub_data_Prepends(msg, data) ==
    IF msg = <<>> THEN data
    ELSE pubsub_data_Prepends(Tail(msg), <<Head(msg)>> \o data)

\* deliver_pubsub_msg: `for elem in msg: data.append(...)`; a list of one
\* message is handled as the message itself
RECURSIVE pubsub_data(_, _)
pubsub_data(msg, data) ==
    IF msg = <<>> THEN data
    ELSE pubsub_data(Tail(msg), Append(data, Head(msg)))

\* deliver_pubsub_msg: the cid, which is the id of the frame, is the
\* pub_msg_id of a message handed over alone and a new_cid() for a batch
pubsub_cid(n) == IF n = 1 THEN PubSubReplyId ELSE BatchCid

\* reply_to_sk of a pub/sub message: none, or a sub_key
NoSk == 0
ReplyToSks == {NoSk, 1}

\* The loop over a batch: `ctx.setdefault('', []).append(elem.reply_to_sk)`
\* for each element that has one
RECURSIVE pubsub_ctx_batch(_, _)
pubsub_ctx_batch(sks, ctx) ==
    IF sks = <<>> THEN ctx
    ELSE pubsub_ctx_batch(Tail(sks),
            IF Head(sks) = NoSk THEN ctx
            ELSE ("" :> Append(IF "" \in DOMAIN ctx THEN ctx[""] ELSE <<>>, Head(sks))))

\* deliver_pubsub_msg: the ctx handed to invoke_client, from the
\* reply_to_sk of each message; a message handed over alone gets
\* `ctx['reply_to_sk'] = msg.reply_to_sk`
pubsub_ctx(sks) ==
    IF Len(sks) = 1
    THEN IF sks[1] = NoSk THEN NoCtx ELSE ("reply_to_sk" :> sks[1])
    ELSE pubsub_ctx_batch(sks, NoCtx)

\* The messages are numbered in the order they are handed over
Deliver(n, sks) ==
    /\ tasks[Deliverer].pc = "idle"
    /\ env.handed + n <= MaxMsgs
    /\ env' = [env EXCEPT !.handed = @ + n]
    /\ StartRequest(Deliverer,
                    [Frame("InvokeClientPubSub", pubsub_cid(n), 0,
                           pubsub_data([i \in 1..n |-> env.handed + i], <<>>))
                        EXCEPT !.ctx = pubsub_ctx(sks)],
                    "interact")
    /\ hist' = NoHist
    /\ UNCHANGED wire

\* The frame is on the wire and, invoke_client having returned,
\* set_last_interaction_data('pubsub.deliver_pubsub_msg') is called (or the
\* ConnectionError goes to the caller)
DelivererWritten ==
    /\ tasks[Deliverer].pc = "write"
    /\ wire' = IF ws.sock THEN Append(wire, tasks[Deliverer].frame.data) ELSE wire
    /\ hist' = IF ws.sock
               THEN [Wrote(Deliverer, tasks[Deliverer].frame) EXCEPT
                        !.services = interaction_services(ws)]
               ELSE NoHist
    /\ ws' = IF ws.sock THEN set_last_interaction_data(ws) ELSE ws
    /\ tasks' = SetTask(tasks, Deliverer, Idle("idle"))
    /\ UNCHANGED <<clients, host, env>>

\* A minute passes on the connection
InteractTick ==
    /\ ws.interact_last_set
    /\ ws' = [ws EXCEPT !.interact_last_updated =
                  IF @ > InteractUpdateInterval THEN @ ELSE @ + 1]
    /\ hist' = NoHist
    /\ UNCHANGED <<clients, tasks, host, wire, env>>

(***************************************************************************)
(* A caller of disconnect_client, on the connection itself or through      *)
(* WebSocketContainer.disconnect_client.                                   *)
(***************************************************************************)
DisconnectClient(via) ==
    /\ tasks[Closer].pc = "idle"
    /\ env.disconnects < MaxDisconnects
    /\ env' = [env EXCEPT !.disconnects = @ + 1]
    /\ IF via = "container" /\ container_lookup(clients, ThisClient) = "KeyError"
       THEN /\ tasks' = SetTask(tasks, Closer, Task("idle", NoFrame, "none", 0, 0, "exception"))
            /\ UNCHANGED <<ws, host, clients>>
       ELSE /\ ws' = disconnect_client(ws)
            /\ host' = disconnect_client_host(ws, host)
            /\ clients' = clients \ {ThisClient}
            /\ tasks' = SetTask(tasks, Closer,
                   IF close_frame(ws, 0) = NoFrame THEN Idle("idle")
                   ELSE Task("write", close_frame(ws, 0), "closed", 0, 0, "unbound"))
    /\ hist' = [NoHist EXCEPT !.by = Closer]
    /\ UNCHANGED wire

CloserWritten ==
    /\ tasks[Closer].pc = "write"
    /\ hist' = IF ws.sock THEN Wrote(Closer, tasks[Closer].frame) ELSE NoHist
    /\ tasks' = SetTask(tasks, Closer, Idle("idle"))
    /\ UNCHANGED <<ws, clients, host, wire, env>>

(***************************************************************************)
(* The bytes of an inbound frame, as _received_message gets them: whether  *)
(* they decode as UTF-8, the `meta` and `data` of the JSON document, and   *)
(* what the auth backend and the configured service make of the request.   *)
(***************************************************************************)
c1 == RequestId
c2 == RequestId + 1
RequestIds == {c1, c2}

\* The statuses of the Reportable exceptions a service raises
ReportableStatuses == {FORBIDDEN, NOT_FOUND}

\* What services do with a request
Requests ==
    ClientMessages
    \cup {ClientMessage("invoke-service", tok, FALSE, "parsing", 0) : tok \in 0..MaxTokens}
    \cup {[ClientMessage("invoke-service", tok, FALSE, "reportable", 0) EXCEPT !.status = st] :
            tok \in 0..MaxTokens, st \in ReportableStatuses}

\* The `meta` a client sends for a request: `token` is left out before the
\* first authentication, `in_reply_to` is sent with responses only
Meta(m, id, has_timestamp) ==
    LET full == [action |-> m.action, id |-> id, timestamp |-> 1,
                 token |-> m.token, in_reply_to |-> m.in_reply_to]
        keys == {"action", "id"}
                \cup (IF has_timestamp THEN {"timestamp"} ELSE {})
                \cup (IF m.token # 0 THEN {"token"} ELSE {})
                \cup (IF m.action = "client-response" THEN {"in_reply_to"} ELSE {})
    IN  [k \in keys |-> full[k]]

Payload(utf8, meta, m) ==
    [utf8 |-> utf8, empty |-> FALSE, meta |-> meta, data |-> m.data,
     creds_ok |-> m.creds_ok, svc |-> m.svc, status |-> m.status]

\* The frame of no bytes: b''.decode('utf8') succeeds and the parser is
\* handed `data or _default_data`, the empty string
EmptyPayload ==
    [Payload(TRUE, [k \in {} |-> 0], ClientMessage("none", 0, FALSE, "ok", 0))
        EXCEPT !.empty = TRUE]

Payloads ==
    {Payload(FALSE, [k \in {} |-> 0], ClientMessage("none", 0, FALSE, "ok", 0)),
     EmptyPayload}
    \cup {Payload(TRUE, Meta(m, id, ts), m) :
            m \in Requests, id \in RequestIds, ts \in BOOLEAN}

\* dict.get(key, default)
get(meta, key, default) == IF key \in DOMAIN meta THEN meta[key] ELSE default

\* self._json_parser.parse(data): the empty string is no JSON document and
\* the parser raises ValueError
json_parse_raises(d) == d.empty

\* parse_json: `ext_client_id = meta.get('client_id')`, then
\* `if ext_client_id: self.ext_client_id = meta.get('client_id')`
parse_json_ext_client_id(w, d) ==
    IF get(d.meta, "client_id", NoExtId) # NoExtId THEN d.meta["client_id"]
    ELSE w.ext_client_id

\* A parser that loses the token
parse_json_NoToken(d) ==
    [raised |-> json_parse_raises(d) \/ ~({"id", "timestamp"} \subseteq DOMAIN d.meta),
     msg |-> [action |-> get(d.meta, "action", "client-response"),
              id |-> get(d.meta, "id", 0),
              token |-> 0,
              creds_ok |-> d.creds_ok, svc |-> d.svc, status |-> d.status,
              in_reply_to |-> get(d.meta, "in_reply_to", 0),
              data |-> d.data,
              ext_client_id |-> NoExtId, fails |-> "none"]]

\* parse_json: meta['id'] and meta['timestamp'] raise KeyError when the key
\* is missing, the other keys are read with meta.get
parse_json(d) ==
    [raised |-> json_parse_raises(d) \/ ~({"id", "timestamp"} \subseteq DOMAIN d.meta),
     msg |-> [action |-> get(d.meta, "action", "client-response"),
              id |-> get(d.meta, "id", 0),
              token |-> get(d.meta, "token", 0),
              creds_ok |-> d.creds_ok, svc |-> d.svc, status |-> d.status,
              in_reply_to |-> get(d.meta, "in_reply_to", 0),
              data |-> d.data,
              ext_client_id |-> NoExtId, fails |-> "none"]]

\* The connection as parse_json leaves it
parsed_ws(w, d) == [w EXCEPT !.ext_client_id = parse_json_ext_client_id(w, d)]

\* The message parse_json returns: `msg.ext_client_id = self.ext_client_id`
parsed_msg(w, d) ==
    [parse_json(d).msg EXCEPT !.ext_client_id = parse_json_ext_client_id(w, d)]

\* The frames of a client that names itself: `meta.client_id` is sent along
MaxExtIds == 2

IdentPayloads ==
    {Payload(TRUE, Meta(m, RequestId, TRUE) @@ ("client_id" :> id), m) :
        m \in ClientMessages, id \in 1..MaxExtIds}

invalid_utf8_reason == "Invalid UTF-8 bytes"

\* _received_message, `if self.has_session_opened`: the ErrorResponse is
\* handed to self._send_response_to_client, a method the class does not
\* have; the AttributeError is logged and nothing is written
invalid_utf8_response(w) == NoFrame

\* close(code, reason): the close frame with its reason
close_frame_reason(w, code, reason) ==
    IF close_frame(w, code) = NoFrame THEN NoFrame
    ELSE [close_frame(w, code) EXCEPT !.data = <<reason>>]

\* What the reader sees of a frame it did not hand to a handler
Dropped(why) ==
    [NoHist EXCEPT !.by = Reader, !.authed = ws.has_session_opened, !.rejected = why]

\* _received_message from the bytes on: the UTF-8 check, parse_json (whose
\* exception is logged), then the checks and the handlers
ReceiveData(d) ==
    /\ tasks[Reader].pc = "recv"
    /\ IF ~d.utf8
       THEN IF ws.has_session_opened
            THEN /\ hist' = Dropped("invalid-utf8")
                 /\ IF invalid_utf8_response(ws) # NoFrame
                    THEN /\ tasks' = SetTask(tasks, Reader,
                                Task("write", invalid_utf8_response(ws), "loop", 0, 0, "unbound"))
                         /\ UNCHANGED <<ws, host, clients>>
                    ELSE ReaderResume(ws, host, tasks)
                 /\ UNCHANGED <<wire, env>>
            ELSE LET frame == close_frame_reason(ws, code_invalid_utf8, invalid_utf8_reason)
                     w2 == disconnect_client(ws)
                 IN  /\ host.by_disconnect < MaxDisconnects
                     /\ hist' = Dropped("invalid-utf8")
                     /\ host' = disconnect_client_host(ws, host)
                     /\ clients' = clients \ {ThisClient}
                     /\ IF frame # NoFrame
                        THEN /\ ws' = w2
                             /\ tasks' = SetTask(tasks, Reader,
                                    Task("write", frame, "invalid-utf8", 0, 0, "unbound"))
                        ELSE /\ ws' = IF terminated(w2) THEN terminate(w2) ELSE w2
                             /\ tasks' = SetTask(tasks, Reader,
                                    IF terminated(w2) THEN Idle("done") ELSE Idle("recv"))
                     /\ UNCHANGED <<wire, env>>
       ELSE IF parse_json(d).raised
            THEN /\ hist' = Dropped(IF json_parse_raises(d) THEN "ValueError" ELSE "KeyError")
                 /\ ReaderResume(ws, host, tasks)
                 /\ UNCHANGED <<wire, env>>
            ELSE ReceiveParsed(parsed_ws(ws, d), parsed_msg(ws, d))

(***************************************************************************)
(* WebSocketContainer.__call__: an HTTP request reaches the channel.  The  *)
(* request has an Upgrade header or not, its path is config.path or not,   *)
(* and ws4py's handshake accepts it or raises HandshakeError.              *)
(***************************************************************************)
HttpRequests == [upgrade : BOOLEAN, path_ok : BOOLEAN, handshake_ok : BOOLEAN]

\* A container that looks at the path first
WebSocketContainer_call_PathFirst(req) ==
    IF ~req.path_ok THEN [status |-> NOT_FOUND, websocket |-> FALSE]
    ELSE IF ~req.upgrade \/ ~req.handshake_ok THEN [status |-> BAD_REQUEST, websocket |-> FALSE]
    ELSE [status |-> 0, websocket |-> TRUE]

\* The status of the response that __call__ starts (0: none, the
\* handshake of ws4py answers) and whether make_websocket is called
WebSocketContainer_call(req) ==
    IF ~req.upgrade THEN [status |-> BAD_REQUEST, websocket |-> FALSE]
    ELSE IF ~req.path_ok THEN [status |-> NOT_FOUND, websocket |-> FALSE]
    ELSE IF ~req.handshake_ok THEN [status |-> BAD_REQUEST, websocket |-> FALSE]
    ELSE [status |-> 0, websocket |-> TRUE]

\* make_websocket: self.clients[websocket.pub_client_id] = websocket
make_websocket(c) == c \cup {OtherClient}

HttpRequest(req) ==
    /\ WebSocketContainer_call(req).websocket => OtherClient \notin clients
    /\ clients' = IF WebSocketContainer_call(req).websocket THEN make_websocket(clients)
                  ELSE clients
    /\ hist' = [NoHist EXCEPT !.by = Server, !.status = WebSocketContainer_call(req).status]
    /\ UNCHANGED <<ws, tasks, host, wire, env>>

(***************************************************************************)
(* unhandled_error: ws4py calls it when the socket fails under the reader, *)
(* then leaves its loop and calls terminate().  The close frame of         *)
(* disconnect_client may or may not get through the failing socket.        *)
(***************************************************************************)
UnhandledError(written) ==
    /\ tasks[Reader].pc = "recv"
    /\ ws' = terminate(disconnect_client(ws))
    /\ host' = disconnect_client_host(ws, host)
    /\ clients' = clients \ {ThisClient}
    /\ tasks' = SetTask(tasks, Reader, Idle("done"))
    /\ hist' = [NoHist EXCEPT
                  !.by = Reader,
                  !.authed = ws.has_session_opened,
                  !.rejected = "unhandled-error",
                  !.frame = IF written THEN close_frame(ws, runtime_background_ping)
                            ELSE NoFrame]
    /\ UNCHANGED <<wire, env>>

(***************************************************************************)
(* Specifications.  The tasks of a connection, group by group.             *)
(***************************************************************************)
\* The reader and the session watchdog
NextSession ==
    \/ Tick
    \/ \E m \in ClientMessages : ReceiveMessage(m)
    \/ ReaderWritten
    \/ PeerClosed
    \/ WatchdogObserve
    \/ WatchdogExpire
    \/ WatchdogWritten

\* The background pingers and the pongs of the client
NextPings ==
    \/ \E id \in PingIds : Ponged(id)
    \/ \E p \in Pingers : PingerWake(p)
    \/ \E p \in Pingers : PingerPingWritten(p)
    \/ \E p \in Pingers : PingerObserve(p)
    \/ \E p \in Pingers : PingerTimeout(p)
    \/ \E p \in Pingers : PingerCloseWritten(p)

\* A caller of invoke_client
NextInvoke ==
    \/ \E via \in {"direct", "container"} : InvokeClient(via)
    \/ InvokerWritten
    \/ InvokerObserve
    \/ InvokerTimeout

\* The pub/sub delivery task
NextDeliver ==
    \/ \E n \in 1..MaxMsgs : \E sks \in [1..n -> ReplyToSks] : Deliver(n, sks)
    \/ DelivererWritten

\* Replies of the client to the pub/sub frames it was sent
PubSubReplies ==
    {ClientMessage("client-response", tok, FALSE, "ok", irt) :
        tok \in 0..MaxTokens, irt \in {pubsub_cid(n) : n \in 1..MaxMsgs}}

NextReplies == \E m \in PubSubReplies : ReceiveMessage(m)

\* The deliveries to a connection over the minutes
NextInteract ==
    \/ InteractTick
    \/ \E m \in ClientMessages : ReceiveMessage(m)
    \/ ReaderWritten
    \/ PeerClosed
    \/ NextDeliver

SpecInteract == Init /\ [][NextInteract]_vars

\* A caller of disconnect_client
NextDisconnect ==
    \/ \E via \in {"direct", "container"} : DisconnectClient(via)
    \/ CloserWritten


\* The connection with its reader, watchdog and pingers
SpecPings == Init /\ [][NextSession \/ NextPings]_vars

\* The clock of a connection whose pingers run on time and whose client
\* answers every ping within the wait of invoke_client: a second passes
\* only while no pinger has a step to take (its sleep is over, its ping is
\* being written, its pong is there) and no wait would run out unanswered
TimelyTick ==
    /\ \A p \in Pingers :
          /\ ~(tasks[p].pc = "sleep" /\ tasks[p].left = 0)
          /\ tasks[p].pc # "write"
          /\ tasks[p].pc = "wait" =>
                /\ ws.responses_received[tasks[p].id] = "none"
                /\ tasks[p].left > 1
    /\ Tick

\* The reader and the pingers of such a connection
NextTimely ==
    \/ TimelyTick
    \/ \E m \in ClientMessages : ReceiveMessage(m)
    \/ ReaderWritten
    \/ \E id \in PingIds : Ponged(id)
    \/ \E p \in Pingers : PingerWake(p)
    \/ \E p \in Pingers : PingerPingWritten(p)
    \/ \E p \in Pingers : PingerObserve(p)

SpecTimely == Init /\ [][NextTimely]_vars

\* The connection while no ping is due, with a caller of invoke_client
SpecInvoke == Init /\ [][NextSession \/ NextInvoke]_vars

\* The same with the clock running and every task resumed after its
\* sleep(0.01) or its write: gevent leaves no runnable greenlet behind
SpecInvokeLive ==
    /\ SpecInvoke
    /\ WF_vars(Tick)
    /\ WF_vars(ReaderWritten)
    /\ WF_vars(WatchdogObserve \/ WatchdogExpire \/ WatchdogWritten)
    /\ WF_vars(InvokerWritten \/ InvokerObserve \/ InvokerTimeout)

\* The same, with the pub/sub delivery task
SpecDeliver == Init /\ [][NextSession \/ NextDeliver]_vars

\* The same with a client that replies to the pub/sub frames
SpecReplies == Init /\ [][NextSession \/ NextDeliver \/ NextReplies]_vars

\* The same, with a caller of disconnect_client
SpecDisconnect == Init /\ [][NextSession \/ NextDisconnect]_vars

\* The reader taking frames in from their bytes on, and the watchdog
NextFrames ==
    \/ Tick
    \/ \E d \in Payloads : ReceiveData(d)
    \/ ReaderWritten
    \/ PeerClosed
    \/ WatchdogObserve
    \/ WatchdogExpire
    \/ WatchdogWritten

SpecFrames == Init /\ [][NextFrames]_vars

\* The reader of a connection whose client sends meta.client_id
NextIdent ==
    \/ Tick
    \/ \E d \in IdentPayloads : ReceiveData(d)
    \/ ReaderWritten
    \/ PeerClosed

SpecIdent == Init /\ [][NextIdent]_vars

\* The reader of a connection some of whose hook services, or the host's
\* client.create, raise an exception
NextHooks ==
    \/ Tick
    \/ \E m \in ClientMessages \cup FailingMessages : ReceiveMessage(m)
    \/ ReaderWritten
    \/ PeerClosed

SpecHooks == Init /\ [][NextHooks]_vars

\* The same with the clock running, the reader resumed after its write and
\* the watchdog resumed after its sleep(0.01) or its write
SpecFramesLive ==
    /\ SpecFrames
    /\ WF_vars(Tick)
    /\ WF_vars(ReaderWritten)
    /\ WF_vars(WatchdogObserve \/ WatchdogExpire \/ WatchdogWritten)

\* The container taking HTTP requests while the connection lives
NextHttp == \E req \in HttpRequests : HttpRequest(req)

SpecHttp == Init /\ [][NextSession \/ NextHttp]_vars

\* The socket failing under the reader
NextError == \E written \in BOOLEAN : UnhandledError(written)

\* The container's operations, for a client of the map or a missing one
NextLookup ==
    \E op \in ContainerOps, pub_client_id \in {ThisClient, OtherClient} :
        ContainerCall(op, pub_client_id)

\* The container with its connections and its callers, within the first
\* second after the connection was accepted
NextContainer ==
    \/ \E m \in ClientMessages : ReceiveMessage(m)
    \/ ReaderWritten
    \/ PeerClosed
    \/ NextHttp
    \/ NextLookup
    \/ InvokeClient("container")
    \/ InvokerWritten
    \/ InvokerObserve
    \/ DisconnectClient("container")
    \/ CloserWritten

SpecContainer == Init /\ [][NextContainer]_vars

\* The pingers of a peer that answers no ping
NextPingsMissed ==
    \/ \E p \in Pingers : PingerWake(p)
    \/ \E p \in Pingers : PingerPingWritten(p)
    \/ \E p \in Pingers : PingerTimeout(p)
    \/ \E p \in Pingers : PingerCloseWritten(p)

\* The pingers of a peer that answers the first ping at most
NextPingsOnce ==
    \/ NextPingsMissed
    \/ Ponged(1)
    \/ \E p \in Pingers : PingerObserve(p)

\* The reader, the watchdog and the pingers with the clock running and
\* every pinger resumed after its sleep, its write or its wait: gevent
\* leaves no runnable greenlet behind
SpecPingsLive ==
    /\ Init /\ [][NextSession \/ NextPingsOnce]_vars
    /\ WF_vars(Tick)
    /\ \A p \in Pingers :
          WF_vars(PingerWake(p) \/ PingerPingWritten(p) \/ PingerObserve(p)
                    \/ PingerTimeout(p) \/ PingerCloseWritten(p))

\* Every way a connection is closed: by the peer, by the reader's
\* Forbidden, by the watchdog, by a pinger, by a caller of
\* disconnect_client and by a failure of the socket
SpecClosed ==
    Init /\ [][NextSession \/ NextPingsMissed \/ NextDisconnect \/ NextError]_vars

Next ==
    \/ NextSession
    \/ NextPings
    \/ NextInvoke
    \/ NextDeliver
    \/ NextDisconnect
    \/ NextFrames
    \/ NextHttp
    \/ NextError
    \/ NextLookup
    \/ NextReplies
    \/ InteractTick

Spec == Init /\ [][Next]_vars

\* The same on a channel with new_token_wait_time = 0: the loop of
\* _wait_for_event is never entered, so the watchdog never polls
NextNoWait ==
    \/ Tick
    \/ \E d \in Payloads : ReceiveData(d)
    \/ ReaderWritten
    \/ PeerClosed
    \/ WatchdogExpire
    \/ WatchdogWritten

SpecNoWait == InitNoWait /\ [][NextNoWait]_vars

(***************************************************************************)
(* Properties.                                                             *)
(***************************************************************************)
\* C1: a request that _received_message dispatches on a connection with an
\* open session (to the service, to the correlator or the pub/sub hook, to
\* re-authentication) carries the connection's current token value, and
\* the check is made no later than token.expires_at.
C1_DispatchedTokenValid ==
    (hist.by = Reader /\ hist.authed /\ hist.dispatch # "none")
        => (hist.token_ok /\ hist.in_time)

\* A re-authentication was dispatched when the token had one second left
C1_Witness ==
    /\ hist.by = Reader /\ hist.authed /\ hist.dispatch = "reauth"
    /\ hist.token_ok /\ hist.in_time
    /\ ws.token.value = 2
    /\ ws.token.expires_in = TokenTTL + 1

\* C2 (as stated): once the wait for a request id has returned,
\* responses_received holds no entry for that id.
C2_KeyRemoved ==
    hist.waited # 0 => ws.responses_received[hist.waited] = "none"

\* C3: a caller of invoke_client that waits gets its answer: the wait
\* ends; it ends with the stored response only while time was left, and
\* with None only when the timeout had elapsed.
C3_WaitReturns ==
    /\ (tasks[Invoker].pc = "wait") ~> (tasks[Invoker].pc = "idle")
    /\ []((hist.by = Invoker /\ hist.waited # 0) =>
            IF hist.result = "none"
            THEN hist.left = 0
            ELSE /\ hist.left > 0
                 /\ hist.result = ws.responses_received[hist.waited]
                 /\ tasks[Invoker].response = hist.result)

\* The caller got the client's response before the timeout
C3_Witness ==
    /\ hist.by = Invoker /\ hist.waited = CallerId
    /\ hist.result = "msg" /\ hist.left > 0
    /\ tasks[Invoker].pc = "idle"

\* A connection is closing once a disconnect was requested or a
\* termination flag is set
closing(w) == w._disconnect_requested \/ w.server_terminated \/ w.client_terminated

\* C4: on an authenticated connection that is not closing, pings_missed
\* does not exceed pings_missed_threshold.
C4_PingsMissedBounded ==
    (ws.has_session_opened /\ ~closing(ws)) => ws.pings_missed <= PingsMissedThreshold

\* A pinger round ended with its pong on a connection that was
\* re-authenticated and stays open
C4_Witness ==
    /\ hist.by \in Pingers /\ hist.result = "true"
    /\ ws.has_session_opened /\ ~closing(ws)
    /\ ws.token.value = 2
    /\ ws.pings_missed = 0

\* C5 (as stated): at most one task is inside an outbound write.
C5_OneWriter ==
    Cardinality({t \in Tasks : tasks[t].pc = "write"}) <= 1

\* The pub/sub messages on the wire, frame after frame
RECURSIVE Flatten(_)
Flatten(frames) ==
    IF frames = <<>> THEN <<>> ELSE Head(frames) \o Flatten(Tail(frames))

\* C6: the pub/sub messages of the sub_key reach the wire in the order
\* they were handed over, across frames and inside a batch.
C6_PubSubOrder ==
    LET sent == Flatten(wire)
    IN  \A i \in 1..Len(sent) : \A j \in 1..Len(sent) : i < j => sent[i] < sent[j]

\* A batch of two went out, then a single message
C6_Witness ==
    /\ Len(wire) = 2
    /\ Len(wire[1]) = 2
    /\ wire[2] = <<3>>

\* C7 (as stated): however often disconnect_client is called, the host
\* deregistration on its behalf is performed once.
C7_DeregisteredOnce ==
    host.by_disconnect <= 1

\* C8: once a token exists no step of the program moves its expires_at
\* back: apart from the passing of time, the distance to it never shrinks.
C8_ExpiryNeverDecreases ==
    [][Tick \/ ws.token = NoToken \/ ws'.token.expires_in >= ws.token.expires_in]_vars

\* A pong extended the token of a re-authenticated connection
C8_Witness ==
    /\ hist.by \in Pingers /\ hist.result = "true"
    /\ ws.token.value = 2
    /\ ws.token.expires_in >= 2 * TokenTTL

\* C9 (as stated): a request with a missing, wrong or expired token on an
\* authenticated connection has a Forbidden message sent for it.
C9_ForbiddenSent ==
    (hist.by = Reader /\ hist.authed /\ hist.frame = NoFrame
        /\ ~(hist.token_ok /\ hist.in_time))
        => (tasks[Reader].pc = "write" /\ tasks[Reader].frame = Forbidden)

\* C9 (amended): such a request is rejected and not dispatched; Forbidden
\* is written only to a client not known to have disconnected, and both
\* termination flags are set once it is written; for a client known to
\* have disconnected nothing is written and the connection is terminated.
C9_RejectedNotDispatched ==
    /\ (hist.by = Reader /\ hist.authed /\ hist.frame = NoFrame
          /\ ~(hist.token_ok /\ hist.in_time))
          => /\ hist.dispatch = "none"
             /\ hist.rejected = "token"
             /\ IF tasks[Reader].pc = "write"
                THEN tasks[Reader].frame = Forbidden /\ ~is_client_disconnected(ws)
                ELSE terminated(ws) /\ tasks[Reader].pc = "done"
    /\ (hist.by = Reader /\ hist.rejected = "token" /\ hist.frame # NoFrame)
          => /\ hist.frame = Forbidden
             /\ terminated(ws)
             /\ tasks[Reader].pc = "done"

\* Forbidden went out for a bad token and the connection is terminated
C9_Witness ==
    /\ hist.by = Reader /\ hist.rejected = "token" /\ hist.frame = Forbidden
    /\ ws.has_session_opened
    /\ terminated(ws)

\* C10 (as stated): after the rejection of a create-session the connection
\* is closed by a close frame with code 1000.
C10_ClosedWithCode1000 ==
    (hist.by = Reader /\ hist.rejected = "credentials" /\ terminated(ws))
        => (hist.frame.kind = "Close" /\ hist.frame.code = close_code_default)

\* C10 (amended): after the rejection of a create-session Forbidden is
\* written unless the client is known to have disconnected, then both
\* termination flags are set; no close frame is written.
C10_ForbiddenThenTerminated ==
    /\ (hist.by = Reader /\ hist.rejected = "credentials" /\ hist.frame = NoFrame)
          => /\ hist.dispatch \in {"none", "reauth"}
             /\ IF tasks[Reader].pc = "write"
                THEN tasks[Reader].frame = Forbidden /\ ~is_client_disconnected(ws)
                ELSE terminated(ws) /\ tasks[Reader].pc = "done"
    /\ (hist.by = Reader /\ hist.rejected = "credentials" /\ hist.frame # NoFrame)
          => /\ hist.frame = Forbidden
             /\ terminated(ws)
             /\ tasks[Reader].pc = "done"

\* Forbidden went out for bad credentials before any session was opened
C10_Witness ==
    /\ hist.by = Reader /\ hist.rejected = "credentials" /\ hist.frame = Forbidden
    /\ ~ws.has_session_opened
    /\ terminated(ws)

\* C11: a frame that is not valid UTF-8 on a connection without a session
\* is neither parsed nor dispatched and the client is disconnected with
\* code 4001 and reason "Invalid UTF-8 bytes": the disconnect is recorded,
\* the host deregistration is invoked, the connection leaves the clients
\* map, and the close frame with that code and reason is written unless
\* the server side of the connection was terminated before.
C11_InvalidUtf8Closes ==
    /\ [][\A d \in Payloads :
            (~d.utf8 /\ ~ws.has_session_opened /\ ReceiveData(d)) =>
                /\ hist'.dispatch = "none"
                /\ hist'.rejected = "invalid-utf8"
                /\ ~ws'.has_session_opened
                /\ ws'.token = ws.token
                /\ host'.created = host.created
                /\ ws'._disconnect_requested
                /\ ws'.server_terminated
                /\ host'.unregistered = host.unregistered + 1
                /\ ThisClient \notin clients'
                /\ IF ~ws.server_terminated
                   THEN /\ tasks'[Reader].pc = "write"
                        /\ tasks'[Reader].frame =
                              Frame("Close", 0, code_invalid_utf8, <<invalid_utf8_reason>>)
                   ELSE tasks'[Reader].pc # "write"]_vars
    /\ []((hist.by = Reader /\ hist.rejected = "invalid-utf8" /\ hist.frame # NoFrame) =>
            /\ hist.frame = Frame("Close", 0, code_invalid_utf8, <<invalid_utf8_reason>>)
            /\ ws._disconnect_requested
            /\ ws.server_terminated
            /\ ~ws.has_session_opened)

\* The close frame for invalid UTF-8 went out on a connection that never
\* had a session
C11_Witness ==
    /\ hist.by = Reader /\ hist.rejected = "invalid-utf8"
    /\ hist.frame = Frame("Close", 0, code_invalid_utf8, <<invalid_utf8_reason>>)
    /\ ~ws.has_session_opened
    /\ ws._disconnect_requested
    /\ ThisClient \notin clients
    /\ host.unregistered = 1

\* C12 (as stated): a frame that is not valid UTF-8 on a connection with an
\* open session is answered with an Error message of status 422, and the
\* connection stays open and registered.
C12_ErrorSent ==
    [][\A d \in Payloads :
         (~d.utf8 /\ ws.has_session_opened /\ can_write(ws) /\ ReceiveData(d)) =>
             /\ tasks'[Reader].pc = "write"
             /\ tasks'[Reader].frame.kind = "Error"
             /\ tasks'[Reader].frame.code = UNPROCESSABLE_ENTITY
             /\ ws'.server_terminated = ws.server_terminated
             /\ ws'.client_terminated = ws.client_terminated
             /\ clients' = clients]_vars

\* C13: when the service raises for an invoke-service request, the reader
\* answers with an Error message whose in_reply_to is the id of the request
\* and whose status is that of a Reportable, 400 for a ParsingException and
\* 500 for anything else; neither the handler nor the write closes the
\* connection, and the reader goes back to reading.  (Nothing is written
\* to a connection that was terminated before the request came in.)
C13_ServiceErrorReplied ==
    /\ [][\A d \in Payloads :
            (/\ hist'.dispatch = "service"
             /\ d.svc # "ok"
             /\ d.utf8
             /\ ~parse_json(d).raised
             /\ ws.has_session_opened
             /\ token_accepted(ws, parse_json(d).msg)
             /\ parse_json(d).msg.action = "invoke-service"
             /\ ReceiveData(d)) =>
                /\ hist'.rejected = "none"
                /\ IF can_write(ws)
                   THEN /\ ws' = ws
                        /\ clients' = clients
                        /\ host' = host
                        /\ tasks'[Reader].pc = "write"
                        /\ tasks'[Reader].cont = "loop"
                        /\ tasks'[Reader].frame =
                              Frame("Error", d.meta.id,
                                    IF d.svc = "reportable" THEN d.status
                                    ELSE IF d.svc = "parsing" THEN BAD_REQUEST
                                    ELSE INTERNAL_SERVER_ERROR,
                                    <<>>)
                   ELSE tasks'[Reader].pc \in {"recv", "done"}]_vars
    /\ [][(ReaderWritten /\ tasks[Reader].frame.kind = "Error" /\ ~terminated(ws)) =>
            /\ hist'.frame = tasks[Reader].frame
            /\ ws' = ws
            /\ clients' = clients
            /\ host' = host
            /\ tasks'[Reader].pc = "recv"]_vars

\* The Error for a Reportable with status 404 went out in reply to c2 and
\* the connection is open, registered and reading
C13_Witness ==
    /\ hist = Wrote(Reader, Frame("Error", c2, NOT_FOUND, <<>>))
    /\ tasks[Reader].pc = "recv"
    /\ ws.has_session_opened
    /\ ~closing(ws)
    /\ ThisClient \in clients

\* C14: with new_token_wait_time = 0 the wait of the watchdog is over from
\* the start: it never sees the condition and needs no time to pass; on a
\* connection without a session it then writes Forbidden (unless the client
\* is known to have disconnected) and both termination flags are set.
C14_NoWaitForbidden ==
    /\ [](tasks[Watchdog].pc = "wait" =>
            /\ wait_expired(tasks[Watchdog].left)
            /\ ~wait_observes(tasks[Watchdog].left, ws.has_session_opened)
            /\ ENABLED WatchdogExpire)
    /\ [][(WatchdogExpire /\ ~ws.has_session_opened) =>
            IF is_client_disconnected(ws)
            THEN terminated(ws') /\ tasks'[Watchdog].pc = "done"
            ELSE /\ tasks'[Watchdog].pc = "write"
                 /\ tasks'[Watchdog].frame = Forbidden]_vars
    /\ [][(WatchdogWritten /\ ws.sock) =>
            /\ hist' = Wrote(Watchdog, Forbidden)
            /\ terminated(ws')
            /\ tasks'[Watchdog].pc = "done"]_vars

\* The watchdog's Forbidden went out before the client had sent anything
C14_Witness ==
    /\ hist = Wrote(Watchdog, Forbidden)
    /\ terminated(ws)
    /\ ~ws.has_session_opened
    /\ ws.token = NoToken
    /\ tasks[Reader].pc = "recv"
    /\ host.created = 0

\* C15: with pings_missed_threshold = 1 the first wait of a pinger that
\* ends without a pong makes it disconnect the client with code 4002 (the
\* close frame is written unless the server side was terminated before)
\* and stop: a pinger that is done stays done and sends no further ping.
C15_FirstMissDisconnects ==
    /\ [][\A p \in Pingers :
            (PingsMissedThreshold = 1 /\ PingerTimeout(p)) =>
                /\ ws'.pings_missed = ws.pings_missed + 1
                /\ ws'._disconnect_requested
                /\ ws'.server_terminated
                /\ ThisClient \notin clients'
                /\ host'.by_disconnect = host.by_disconnect + 1
                /\ env'.pings = env.pings
                /\ IF ~ws.server_terminated
                   THEN /\ tasks'[p].pc = "write"
                        /\ tasks'[p].cont = "closed"
                        /\ tasks'[p].frame = Frame("Close", 0, code_pings_missed, <<>>)
                   ELSE tasks'[p].pc = "done"]_vars
    /\ [][\A p \in Pingers :
            (PingsMissedThreshold = 1 /\ PingerCloseWritten(p)) =>
                /\ tasks'[p].pc = "done"
                /\ terminated(ws')
                /\ env'.pings = env.pings]_vars
    /\ [][\A p \in Pingers : tasks[p].pc = "done" => tasks'[p].pc = "done"]_vars

\* The only ping of the connection got no pong and the close frame 4002
\* went out
C15_Witness ==
    /\ hist = Wrote(Pinger(1), Frame("Close", 0, code_pings_missed, <<>>))
    /\ ws.pings_missed = 1
    /\ env.pings = 1
    /\ tasks[Pinger(1)].pc = "done"
    /\ terminated(ws)
    /\ ThisClient \notin clients

C17_HappyPathNoTimestamp ==
    [][\A d \in Payloads :
         (/\ hist'.by = Reader
          /\ d.utf8
          /\ d.svc = "ok"
          /\ DOMAIN d.meta = {"action", "id", "token"}
          /\ d.meta.action = "invoke-service"
          /\ d.meta.id = c2
          /\ ws.has_session_opened
          /\ d.meta.token = ws.token.value
          /\ ws.token.expires_in >= 0
          /\ can_write(ws)
          /\ ReceiveData(d)) =>
              /\ hist'.dispatch = "service"
              /\ tasks'[Reader].pc = "write"
              /\ tasks'[Reader].frame = Frame("OK", c2, 0, <<d.data + 1>>)]_vars

\* C17 (amended): a create-session with id c1, a timestamp and valid
\* credentials is answered by an Authenticate message in reply to c1 that
\* carries the new token; a following message with meta {action:
\* invoke-service, id: c2, timestamp, token: that token} is dispatched to
\* the service and the service's return value goes back in an OK message
\* in reply to c2.
C17_HappyPath ==
    /\ [][\A d \in Payloads :
            (/\ hist'.by = Reader
             /\ d.utf8
             /\ d.creds_ok
             /\ DOMAIN d.meta = {"action", "id", "timestamp"}
             /\ d.meta.action = "create-session"
             /\ d.meta.id = c1
             /\ ~ws.has_session_opened
             /\ can_write(ws)
             /\ ReceiveData(d)) =>
                 /\ ws'.has_session_opened
                 /\ ws'.token.value # 0
                 /\ host'.created = host.created + 1
                 /\ tasks'[Reader].pc = "write"
                 /\ tasks'[Reader].frame = Frame("Authenticate", c1, ws'.token.value, <<>>)]_vars
    /\ [][\A d \in Payloads :
            (/\ hist'.by = Reader
             /\ d.utf8
             /\ d.svc = "ok"
             /\ DOMAIN d.meta = {"action", "id", "timestamp", "token"}
             /\ d.meta.action = "invoke-service"
             /\ d.meta.id = c2
             /\ ws.has_session_opened
             /\ d.meta.token = ws.token.value
             /\ ws.token.expires_in >= 0
             /\ can_write(ws)
             /\ ReceiveData(d)) =>
                 /\ hist'.dispatch = "service"
                 /\ tasks'[Reader].pc = "write"
                 /\ tasks'[Reader].frame = Frame("OK", c2, 0, <<d.data + 1>>)]_vars
    /\ [][(ReaderWritten /\ tasks[Reader].frame.kind \in {"Authenticate", "OK"}) =>
            hist'.frame = tasks[Reader].frame]_vars

\* The OK message with the service's return value went out in reply to c2
\* on the first session of the connection
C17_Witness ==
    /\ hist = Wrote(Reader, Frame("OK", c2, 0, <<2>>))
    /\ ws.has_session_opened
    /\ ws.token.value = 1
    /\ host.created = 1
    /\ tasks[Reader].pc = "recv"

\* C18 (as stated): the wait of a pinger for its pong lasts at most
\* ping_interval.
C18_WaitAtMostInterval ==
    \A p \in Pingers : tasks[p].pc = "wait" => tasks[p].left <= PingInterval

\* C19 (as stated): the watchdog starts to send Forbidden only on a
\* connection whose session is not open at that moment.
C19_NoForbiddenAfterSession ==
    [][(WatchdogExpire /\ ws.has_session_opened) => tasks'[Watchdog].pc # "write"]_vars

\* C20: once the run loop of the reader has ended and the socket is
\* dropped, whatever closed the connection, _close_connection has run: the
\* host deregistration (with the on_disconnected hook) was invoked, the
\* audit container was deleted and the connection is not in the clients
\* map.
C20_ClosedIsDeregistered ==
    tasks[Reader].pc = "done" =>
        /\ ~ws.sock
        /\ terminated(ws)
        /\ host.unregistered >= 1
        /\ host.audit_deleted >= 1
        /\ ThisClient \notin clients

\* The socket failed under the reader of an authenticated connection
C20_Witness ==
    /\ tasks[Reader].pc = "done"
    /\ hist.by = Reader /\ hist.rejected = "unhandled-error"
    /\ hist.frame.code = runtime_background_ping
    /\ ws.has_session_opened
    /\ host.unregistered = 1
    /\ ThisClient \notin clients

(***************************************************************************)
(* C21: an operation of the container addressed to a pub_client_id that is *)
(* not (or no longer) in the clients map ends in the KeyError of the       *)
(* lookup, for each of invoke_client, disconnect_client,                   *)
(* notify_pubsub_message, subscribe_to_topic and get_client_by_pub_id; the *)
(* clients map, the connection and what the host saw stay as they were and *)
(* nothing is written.                                                     *)
(***************************************************************************)
C21_MissingClientKeyError ==
    [][/\ \A op \in ContainerOps, pub_client_id \in {ThisClient, OtherClient} :
            (pub_client_id \notin clients /\ ContainerCall(op, pub_client_id))
                => /\ hist'.result = "KeyError"
                   /\ hist'.dispatch = "none"
                   /\ UNCHANGED <<ws, clients, tasks, host, wire>>
       /\ (ThisClient \notin clients /\ InvokeClient("container"))
                => /\ tasks'[Invoker] = Task("idle", NoFrame, "none", 0, 0, "exception")
                   /\ \A t \in Tasks \ {Invoker} : tasks'[t] = tasks[t]
                   /\ UNCHANGED <<ws, clients, host, wire>>
       /\ (ThisClient \notin clients /\ DisconnectClient("container"))
                => /\ tasks'[Closer] = Task("idle", NoFrame, "none", 0, 0, "exception")
                   /\ \A t \in Tasks \ {Closer} : tasks'[t] = tasks[t]
                   /\ UNCHANGED <<ws, clients, host, wire>>]_vars

\* A lookup of the connection's own id fails after the connection left the
\* map, while a connection accepted later is still in it
C21_Witness ==
    /\ hist.by = Server
    /\ hist.result = "KeyError"
    /\ ThisClient \notin clients
    /\ OtherClient \in clients

(***************************************************************************)
(* C22: when a send of invoke_client finds the socket already terminated   *)
(* (RuntimeError 'Cannot send on a terminated websocket'), the message is  *)
(* dropped and no exception goes to the caller of invoke_client.           *)
(***************************************************************************)
C22_CannotSendNotRaised ==
    [][\A via \in {"direct", "container"} :
          (/\ invoke_client_send(ws) = "cannot-send"
           /\ container_lookup(clients, ThisClient) = "found"
           /\ InvokeClient(via))
              => tasks'[Invoker].response # "exception"]_vars

(***************************************************************************)
(* C23: each error-driven close puts its own code on the close frame; in   *)
(* particular the close frame written for an unhandled low-level error of  *)
(* the transport carries 3703 (close_code.unhandled_error).                *)
(***************************************************************************)
C23_UnhandledErrorCode ==
    (hist.rejected = "unhandled-error" /\ hist.frame # NoFrame)
        => hist.frame.code = code_unhandled_error

(***************************************************************************)
(* C24: a pub/sub invocation is fire-and-forget.  The delivery task is     *)
(* back to idle as soon as its frame is written, with no wait on           *)
(* responses_received; and a reply of the client to a pub/sub frame that   *)
(* was delivered (in_reply_to = the id of that frame) goes to the          *)
(* on_pubsub_response hook and leaves responses_received as it was.        *)
(***************************************************************************)
\* The ids of the pub/sub frames written so far
delivered_ids == {pubsub_cid(Len(wire[i])) : i \in 1..Len(wire)}

C24_PubSubReplyToHook ==
    [][/\ DelivererWritten => tasks'[Deliverer] = Idle("idle")
       /\ \A m \in PubSubReplies :
            (/\ m.in_reply_to \in delivered_ids
             /\ hist'.dispatch \in {"hook", "correlator"}
             /\ ReceiveMessage(m))
                => /\ hist'.dispatch = "hook"
                   /\ ws'.responses_received = ws.responses_received]_vars

(***************************************************************************)
(* C25: no request is dispatched (to the service, the correlator or the    *)
(* hook) for a connection whose has_session_opened is false: whatever the  *)
(* reader receives then is handled by handle_create_session (or dropped    *)
(* before it), and a request that is not a create-session is rejected with *)
(* on_forbidden, whose Forbidden message is written unless the client is   *)
(* known to have disconnected.                                             *)
(***************************************************************************)
C25_NoServiceBeforeSession ==
    /\ [][\A d \in Payloads :
            (~ws.has_session_opened /\ ReceiveData(d)) =>
                /\ hist'.dispatch = "none"
                /\ (d.utf8 /\ ~parse_json(d).raised /\ ~is_auth(parse_json(d).msg)) =>
                      /\ hist'.rejected = "not-auth"
                      /\ ~ws'.has_session_opened
                      /\ IF ws.stream /\ ~is_client_disconnected(ws)
                         THEN /\ tasks'[Reader].pc = "write"
                              /\ tasks'[Reader].frame = Forbidden
                         ELSE tasks'[Reader].pc # "write"]_vars
    /\ [](hist.dispatch # "none" => hist.authed)

\* Forbidden went out for a request that was not a create-session, on a
\* connection without a session
C25_Witness ==
    /\ hist.by = Reader
    /\ hist.rejected = "not-auth"
    /\ hist.frame = Forbidden
    /\ ~ws.has_session_opened

(***************************************************************************)
(* C26: a connection without a session does not stay open: whatever it     *)
(* sends, in the end it has a session or both termination flags are set.   *)
(* The watchdog whose wait of new_token_wait_time is over calls            *)
(* on_forbidden, which writes the Forbidden message unless the client is   *)
(* known to have disconnected, and sets both flags once it is written.     *)
(***************************************************************************)
C26_UnauthenticatedTerminated ==
    /\ (~ws.has_session_opened) ~> (ws.has_session_opened \/ terminated(ws))
    /\ [][/\ WatchdogExpire =>
               IF ws.stream /\ ~is_client_disconnected(ws)
               THEN tasks'[Watchdog].pc = "write" /\ tasks'[Watchdog].frame = Forbidden
               ELSE tasks'[Watchdog].pc = "done" /\ (is_client_disconnected(ws) => terminated(ws'))
          /\ (WatchdogWritten /\ ws.sock) => (hist'.frame = Forbidden /\ terminated(ws'))]_vars

\* The watchdog's Forbidden went out to a client that had sent bytes that
\* were no UTF-8 and never opened a session
C26_Witness ==
    /\ hist.by = Watchdog
    /\ hist.frame = Forbidden
    /\ ~ws.has_session_opened
    /\ host.by_disconnect > 0
    /\ terminated(ws)

(***************************************************************************)
(* C27: once the stream is gone or server_terminated is set, a background  *)
(* pinger starts no further ping and ends: the pinger that wakes from its  *)
(* sleep then ends without a ping, the pinger whose wait for a pong        *)
(* returns then ends, no ping is started in such a state, and every pinger *)
(* that was started is done in the end.                                    *)
(***************************************************************************)
\* `self.stream and (not self.server_terminated)` is false
pinger_must_stop(w) == ~w.stream \/ w.server_terminated

C27_PingerStops ==
    /\ [][\A p \in Pingers :
            /\ (pinger_must_stop(ws) /\ tasks[p].pc = "sleep" /\ PingerWake(p))
                  => (tasks'[p].pc = "done" /\ env'.pings = env.pings)
            /\ (pinger_must_stop(ws) /\ tasks[p].pc = "wait"
                    /\ (PingerObserve(p) \/ PingerTimeout(p)))
                  => tasks'[p].pc = "done"
            /\ (tasks[p].pc # "write" /\ tasks'[p].pc = "write" /\ tasks'[p].cont = "wait")
                  => ~pinger_must_stop(ws)]_vars
    /\ \A p \in Pingers :
          (pinger_must_stop(ws) /\ tasks[p].pc # "none") ~> (tasks[p].pc = "done")

\* A pinger that got its pong on a connection terminated meanwhile, and
\* left its loop
C27_Witness ==
    /\ tasks[Pinger(1)].pc = "done"
    /\ tasks[Pinger(1)].response = "true"
    /\ ws.server_terminated
    /\ ws.pings_missed = 0

(***************************************************************************)
(* C28: for every pub/sub message handed over with reply_to_sk set, alone  *)
(* or as an element of a batch, the InvokeClientPubSub frame that delivers *)
(* it has that value in its ctx under the key reply_to_sk.                 *)
(***************************************************************************)
C28_ReplyToSkCarried ==
    [][\A n \in 1..MaxMsgs : \A sks \in [1..n -> ReplyToSks] :
          (Deliver(n, sks) /\ tasks'[Deliverer].pc = "write") =>
              \A i \in 1..n :
                  sks[i] # NoSk =>
                      /\ "reply_to_sk" \in DOMAIN tasks'[Deliverer].frame.ctx
                      /\ tasks'[Deliverer].frame.ctx["reply_to_sk"] = sks[i]]_vars

(***************************************************************************)
(* C29: the interaction recorder invokes the two services of the host,     *)
(* both together, on the first interaction of the connection and on a      *)
(* later one exactly when the time since the last flush is at least        *)
(* interact_update_interval; otherwise it invokes none.                    *)
(***************************************************************************)
C29_FlushedAtInterval ==
    [][(DelivererWritten /\ ws.sock) =>
          /\ hist'.services \in {<<>>, <<"zato.pubsub.subscription.update-interaction-metadata",
                                        "zato.channel.web-socket.client.set-last-seen">>}
          /\ hist'.services # <<>> <=>
                \/ ~ws.interact_last_set
                \/ ws.interact_last_updated >= InteractUpdateInterval]_vars

(***************************************************************************)
(* C30: a create-session received on a connection that has a session is    *)
(* accepted only if it carries the current token before its expiry (and    *)
(* credentials the auth backend accepts); when it is accepted the token    *)
(* gets a new value and its expiry moves on by ttl, the session stays      *)
(* open; when it is not, the token is left as it was.  A request that      *)
(* carries the value the token had before is rejected as an invalid token  *)
(* from then on: nothing is dispatched and Forbidden is written unless the *)
(* client is known to have disconnected.                                   *)
(***************************************************************************)
C30_ReauthReplacesToken ==
    [][/\ \A m \in ClientMessages :
            (/\ ws.has_session_opened
             /\ hist'.by = Reader
             /\ is_auth(m)
             /\ ReceiveMessage(m)) =>
                IF token_accepted(ws, m) /\ m.creds_ok
                THEN /\ hist'.dispatch = "reauth"
                     /\ hist'.rejected = "none"
                     /\ ws'.token.value \notin {0, ws.token.value}
                     /\ ws'.token.expires_in = ws.token.expires_in + ws.token.ttl
                     /\ ws'.token.ttl = ws.token.ttl
                     /\ ws'.has_session_opened
                ELSE /\ ws'.token = ws.token
                     /\ hist'.rejected \in {"token", "credentials"}
       /\ \A m \in ClientMessages :
            (/\ ws.has_session_opened
             /\ ws.token.value > 1
             /\ hist'.by = Reader
             /\ m.token \in 1..(ws.token.value - 1)
             /\ ReceiveMessage(m)) =>
                /\ hist'.dispatch = "none"
                /\ hist'.rejected = "token"
                /\ ws'.token = ws.token
                /\ IF ws.stream /\ ~is_client_disconnected(ws)
                   THEN /\ tasks'[Reader].pc = "write"
                        /\ tasks'[Reader].frame = Forbidden
                   ELSE tasks'[Reader].pc # "write"]_vars

\* The second token of the connection was just given for a create-session
\* that carried the first one
C30_Witness ==
    /\ hist.by = Reader
    /\ hist.authed
    /\ hist.token_ok
    /\ hist.dispatch = "reauth"
    /\ hist.rejected = "none"
    /\ ws.token.value = 2
    /\ tasks[Reader].pc = "write"
    /\ tasks[Reader].frame.kind = "Authenticate"

(***************************************************************************)
(* C33: a connection has at most one background pinger that has not ended, *)
(* and register_auth_client (the client.create service of the host, the    *)
(* on_connected hook) has run at most once for it, whatever the client     *)
(* sends, a second create-session on its session included.                 *)
(***************************************************************************)
C33_OnePingerOneRegistration ==
    /\ Cardinality({p \in Pingers : tasks[p].pc \notin {"none", "done"}}) <= 1
    /\ host.created <= 1

(***************************************************************************)
(* C34: _close_connection (unregister_auth_client with the on_disconnected *)
(* hook, the removal from the clients map, the audit log container) runs   *)
(* at most once for a connection, however closed(), on_pings_missed,       *)
(* unhandled_error and disconnect_client interleave.                       *)
(***************************************************************************)
C34_ClosedOnce ==
    host.unregistered <= 1

(***************************************************************************)
(* C37: a pinger round whose ping could not be sent (the socket was gone,  *)
(* invoke_client raised) does not count as an answered ping: it leaves the *)
(* token's expiry alone and does not reset pings_missed.                   *)
(***************************************************************************)
C37_FailedPingNotCounted ==
    [][\A p \in Pingers :
          (tasks[p].pc = "write" /\ tasks[p].cont = "wait" /\ ~ws.sock /\ PingerPingWritten(p))
              => /\ ws'.token = ws.token
                 /\ ws'.pings_missed >= ws.pings_missed]_vars

(***************************************************************************)
(* C38: invoke_client returns only a response that arrived after its       *)
(* request was sent: the wait never returns in the step that directly      *)
(* follows the write of the request, when nothing can have been received   *)
(* in reply to it.                                                         *)
(***************************************************************************)
C38_OnlyOwnResponse ==
    [][InvokerObserve => ~(hist.by = Invoker /\ hist.frame.kind = "InvokeClient")]_vars

(***************************************************************************)
(* C39: an InvokeClient request is written only to a connection that has   *)
(* opened a session.                                                       *)
(***************************************************************************)
C39_InvokeOnlyAuthenticated ==
    (hist.by = Invoker /\ hist.frame.kind = "InvokeClient") => ws.has_session_opened

(***************************************************************************)
(* C40: on a connection whose every ping is answered within the wait, the  *)
(* token never expires: no request that carries the current token is       *)
(* rejected as expired.                                                    *)
(***************************************************************************)
C40_AnsweredPingsKeepSession ==
    ~(/\ hist.by = Reader
      /\ hist.authed
      /\ hist.token_ok
      /\ ~hist.in_time
      /\ hist.rejected = "token")

(***************************************************************************)
(* C32: an empty frame received on a connection with an open session is    *)
(* answered: the reader goes on to write a response to the client.         *)
(***************************************************************************)
C32_EmptyFrameAnswered ==
    [][(ws.has_session_opened /\ ReceiveData(EmptyPayload)) => tasks'[Reader].pc = "write"]_vars

(***************************************************************************)
(* C35: ext_client_id changes only when a create-session succeeds; a       *)
(* frame that is rejected or that is an ordinary request leaves it as it   *)
(* was.                                                                    *)
(***************************************************************************)
C35_IdentityOnlyOnAuth ==
    [][\A d \in IdentPayloads :
          (ReceiveData(d) /\ ~(hist'.rejected = "none" /\ is_auth(parse_json(d).msg)))
              => ws'.ext_client_id = ws.ext_client_id]_vars

(***************************************************************************)
(* C36: a connection that holds an opened session has a background pinger  *)
(* (started, running or ended) and the Authenticate response of the        *)
(* session was handed to the socket.                                       *)
(***************************************************************************)
C36_SessionHasPingerAndToken ==
    ws.has_session_opened => \E p \in Pingers : tasks[p].pc # "none"

====
